---- MODULE Spec2Model ----
(***************************************************************************)
(* State-machine model of the CodeBlocks browser client                    *)
(* (src/frontend/script.js).                                               *)
(*                                                                         *)
(* Strings are sequences of one-character strings, so that toLowerCase,    *)
(* includes, split, trim and parseInt are computed character by character  *)
(* as the JavaScript built-ins compute them.                               *)
(***************************************************************************)
EXTENDS Integers, Sequences, FiniteSets, TLC

VARIABLES
    backend,                 \* the REST service's collection (environment)
    nextId,                  \* the id the service assigns to the next POST
    codeBlocks,              \* script.js:5
    currentBlockId,          \* script.js:6   (Null = null)
    isEditMode,              \* script.js:7
    currentExplanationPopup, \* script.js:8
    bodyPopups,              \* .line-explanation-popup elements in document.body
    blocksList,              \* #blocks-list: the rendered sidebar
    rendered,                \* #search and #category-filter values read by the last renderBlocksList
    codeViewer,              \* #code-viewer: the detail pane
    searchInput,             \* #search value
    categoryFilter,          \* #category-filter: options and selected value
    modal,                   \* #code-block-modal display, form fields, dataset.editingId
    listening,               \* setupEventListeners has run
    handlers,                \* the async handlers suspended at an await
    alerts                   \* number of alert() dialogs shown so far

vars ==
    << backend, nextId, codeBlocks, currentBlockId, isEditMode,
       currentExplanationPopup, bodyPopups, blocksList, rendered, codeViewer,
       searchInput, categoryFilter, modal, listening,
       handlers, alerts >>

(***************************************************************************)
(* Bounds of the model.                                                    *)
(***************************************************************************)
MaxInFlight == 1
MaxAlerts == 1
MaxId == 2
MaxLines == 2
MaxSearchLen == 2
MaxExplLen == 2
MaxTextLen == 5
MaxOverlap == 2

Null == 0

(***************************************************************************)
(* String primitives.                                                      *)
(***************************************************************************)
WhiteSpace == {" ", "\n"}

Digits == {"0", "1", "3"}

DigitVal(c) ==
    CASE c = "0" -> 0
      [] c = "1" -> 1
      [] c = "3" -> 3

\* String.prototype.toLowerCase, one character
LowerChar(c) ==
    CASE c = "A" -> "a"
      [] c = "B" -> "b"
      [] c = "T" -> "t"
      [] c = "U" -> "u"
      [] OTHER -> c

toLowerCase(s) == [i \in 1..Len(s) |-> LowerChar(s[i])]

\* String.prototype.includes
includes(s, t) ==
    \E i \in 0..(Len(s) - Len(t)) : SubSeq(s, i + 1, i + Len(t)) = t

RECURSIVE TrimStart(_)
TrimStart(s) ==
    IF s # <<>> /\ Head(s) \in WhiteSpace THEN TrimStart(Tail(s)) ELSE s

RECURSIVE TrimEnd(_)
TrimEnd(s) ==
    IF s # <<>> /\ s[Len(s)] \in WhiteSpace
    THEN TrimEnd(SubSeq(s, 1, Len(s) - 1))
    ELSE s

\* String.prototype.trim
trim(s) == TrimEnd(TrimStart(s))

\* String.prototype.split(sep) for a one-character separator
RECURSIVE split(_, _)
split(s, sep) ==
    IF \E i \in 1..Len(s) : s[i] = sep
    THEN LET i == CHOOSE k \in 1..Len(s) :
                     s[k] = sep /\ \A j \in 1..(k - 1) : s[j] # sep
         IN  <<SubSeq(s, 1, i - 1)>> \o split(SubSeq(s, i + 1, Len(s)), sep)
    ELSE <<s>>

\* Array.prototype.join(sep) for a one-character separator
RECURSIVE join(_, _)
join(parts, sep) ==
    IF parts = <<>> THEN <<>>
    ELSE IF Len(parts) = 1 THEN parts[1]
    ELSE parts[1] \o <<sep>> \o join(Tail(parts), sep)

\* the longest prefix of decimal digits, as a number
RECURSIVE DigitPrefix(_, _, _)
DigitPrefix(s, acc, seen) ==
    IF s # <<>> /\ Head(s) \in Digits
    THEN DigitPrefix(Tail(s), 10 * acc + DigitVal(Head(s)), TRUE)
    ELSE [nan |-> ~seen, val |-> acc]

\* parseInt(str) without a radix: leading white space, an optional sign, then
\* decimal digits; anything after the digits is ignored; NaN without a digit
parseInt(str) ==
    LET s == TrimStart(str)
        neg == s # <<>> /\ Head(s) = "-"
        body == IF s # <<>> /\ Head(s) \in {"-", "+"} THEN Tail(s) ELSE s
        r == DigitPrefix(body, 0, FALSE)
    IN  [nan |-> r.nan, val |-> IF neg THEN 0 - r.val ELSE r.val]

isNaN(n) == n.nan

\* number -> decimal string, as a template literal prints an object key
RECURSIVE NatToString(_)
NatToString(n) ==
    LET d == n % 10
        c == CASE d = 0 -> "0" [] d = 1 -> "1" [] d = 2 -> "2" [] d = 3 -> "3"
               [] d = 4 -> "4" [] d = 5 -> "5" [] d = 6 -> "6" [] d = 7 -> "7"
               [] d = 8 -> "8" [] d = 9 -> "9"
    IN  IF n < 10 THEN <<c>> ELSE NatToString(n \div 10) \o <<c>>

KeyToString(k) == IF k < 0 THEN <<"-">> \o NatToString(0 - k) ELSE NatToString(k)

(***************************************************************************)
(* lineExplanations objects are functions from integer keys to texts.      *)
(***************************************************************************)
EmptyObject == [k \in {} |-> <<>>]

\* obj[key] = value
SetKey(obj, key, value) ==
    [k \in DOMAIN obj \cup {key} |-> IF k = key THEN value ELSE obj[k]]

\* keys in property order: integer indices ascending, then the other keys
RECURSIVE SortedKeys(_)
SortedKeys(ks) ==
    IF ks = {} THEN <<>>
    ELSE LET nonneg == {k \in ks : k >= 0}
             m == IF nonneg # {}
                  THEN CHOOSE k \in nonneg : \A j \in nonneg : k <= j
                  ELSE CHOOSE k \in ks : \A j \in ks : k >= j
         IN  <<m>> \o SortedKeys(ks \ {m})

\* formatLineExplanationsForEdit joining the entries with a blank instead of
\* a line break
formatLineExplanationsForEdit_JoinBlank(lineExplanations) ==
    LET keys == SortedKeys(DOMAIN lineExplanations)
        entries == [i \in 1..Len(keys) |->
                       KeyToString(keys[i]) \o <<":">> \o lineExplanations[keys[i]]]
    IN  join(entries, " ")

\* script.js:352-357
formatLineExplanationsForEdit(lineExplanations) ==
    LET keys == SortedKeys(DOMAIN lineExplanations)
        entries == [i \in 1..Len(keys) |->
                       KeyToString(keys[i]) \o <<":">> \o lineExplanations[keys[i]]]
    IN  join(entries, "\n")

\* the forEach body taking parts[1] for the text instead of joining
\* parts.slice(1) again
RECURSIVE ParseLines_SecondPartOnly(_, _)
ParseLines_SecondPartOnly(lines, n) ==
    IF n = 0 THEN EmptyObject
    ELSE LET acc == ParseLines_SecondPartOnly(lines, n - 1)
             parts == split(lines[n], ":")
             lineNumber == parseInt(trim(parts[1]))
         IN  IF Len(parts) >= 2 /\ ~isNaN(lineNumber)
             THEN SetKey(acc, lineNumber.val, trim(parts[2]))
             ELSE acc

\* the forEach body of script.js:384-392, applied to lines[1..n] in order
RECURSIVE ParseLines(_, _)
ParseLines(lines, n) ==
    IF n = 0 THEN EmptyObject
    ELSE LET acc == ParseLines(lines, n - 1)
             parts == split(lines[n], ":")
             lineNumber == parseInt(trim(parts[1]))
         IN  IF Len(parts) >= 2 /\ ~isNaN(lineNumber)
             THEN SetKey(acc, lineNumber.val, trim(join(Tail(parts), ":")))
             ELSE acc

\* script.js:381-393 (saveEdit)
ParseLineExplanations(lineExplanationsText) ==
    IF trim(lineExplanationsText) # <<>>
    THEN LET lines == split(lineExplanationsText, "\n")
         IN  ParseLines(lines, Len(lines))
    ELSE EmptyObject

\* the forEach body of script.js:469-477, applied to lines[1..n] in order
RECURSIVE ParseLinesModal(_, _)
ParseLinesModal(lines, n) ==
    IF n = 0 THEN EmptyObject
    ELSE LET acc == ParseLinesModal(lines, n - 1)
             parts == split(lines[n], ":")
             lineNumber == parseInt(trim(parts[1]))
         IN  IF Len(parts) >= 2 /\ ~isNaN(lineNumber)
             THEN SetKey(acc, lineNumber.val, trim(join(Tail(parts), ":")))
             ELSE acc

\* script.js:464-478 (saveCodeBlock)
ParseLineExplanationsModal(lineExplanationsText) ==
    IF trim(lineExplanationsText) # <<>>
    THEN LET lines == split(lineExplanationsText, "\n")
         IN  ParseLinesModal(lines, Len(lines))
    ELSE EmptyObject

(***************************************************************************)
(* Data of the model: the blocks the service can hold at start and the     *)
(* texts a user types.                                                     *)
(***************************************************************************)
Block(id, title, category, code, explanation, lineExplanations) ==
    [id |-> id, title |-> title, category |-> category, code |-> code,
     explanation |-> explanation, lineExplanations |-> lineExplanations]

B1 ==
    Block(1, <<"T">>, <<"c">>, <<"x", "\n", "y">>, <<"E">>,
          (1 :> <<"p">>) @@ (2 :> <<>>))

InitialCollections == { <<>>, <<B1>> }

\* what a user types into the three textareas of the inline edit form
EditInputs ==
    { [code |-> <<"z">>, explanation |-> <<"E">>,
       lineExplanations |-> <<"1", ":", "q">>] }

\* what a user types into the modal form
ModalInputs ==
    { [title |-> <<"T">>, category |-> <<"d">>, code |-> <<"x">>,
       explanation |-> <<"E">>, lineExplanations |-> <<"1", ":">>] }

(***************************************************************************)
(* Array helpers.                                                          *)
(***************************************************************************)
\* codeBlocks.find(b => b.id === id) finds something
HasBlock(blocks, id) == \E i \in 1..Len(blocks) : blocks[i].id = id

\* codeBlocks.find(b => b.id === id): the first match
FindBlock(blocks, id) ==
    blocks[CHOOSE i \in 1..Len(blocks) :
               blocks[i].id = id /\ \A j \in 1..(i - 1) : blocks[j].id # id]

\* [...new Set(arr)]: first occurrences, in order
RECURSIVE Distinct(_)
Distinct(arr) ==
    IF arr = <<>> THEN <<>>
    ELSE LET front == Distinct(SubSeq(arr, 1, Len(arr) - 1))
             last == arr[Len(arr)]
         IN  IF \E i \in 1..Len(front) : front[i] = last
             THEN front
             ELSE Append(front, last)

\* JavaScript truthiness of obj[key] for an object of strings
Truthy(obj, key) == key \in DOMAIN obj /\ obj[key] # <<>>

(***************************************************************************)
(* DOM values.                                                             *)
(***************************************************************************)
NoBlock == Block(Null, <<>>, <<>>, <<>>, <<>>, EmptyObject)

NoPopup == [open |-> FALSE, line |-> 0, text |-> <<>>]

NoFields == [code |-> <<>>, explanation |-> <<>>, lineExplanations |-> <<>>]

\* the empty-selection markup of script.js:229-233
Placeholder ==
    [mode |-> "no-selection", block |-> NoBlock, lines |-> <<>>,
     highlighted |-> {}, fields |-> NoFields]

EmptyForm ==
    [title |-> <<>>, category |-> <<>>, code |-> <<>>, explanation |-> <<>>,
     lineExplanations |-> <<>>]

(***************************************************************************)
(* Rendering functions.                                                    *)
(***************************************************************************)
\* renderBlocksList without the toLowerCase() of title and category
renderBlocksList_CaseSensitive(blocks, search, categoryValue, cur) ==
    LET searchTerm == toLowerCase(search)
        category == categoryValue
        matches(block) ==
            LET matchesSearch == \/ includes(block.title, searchTerm)
                                 \/ includes(block.category, searchTerm)
                matchesCategory == category = <<>> \/ block.category = category
            IN  matchesSearch /\ matchesCategory
        filteredBlocks == SelectSeq(blocks, matches)
    IN  IF Len(filteredBlocks) = 0
        THEN [noBlocks |-> TRUE, items |-> <<>>]
        ELSE [noBlocks |-> FALSE,
              items |-> [i \in 1..Len(filteredBlocks) |->
                            [id |-> filteredBlocks[i].id,
                             title |-> filteredBlocks[i].title,
                             category |-> filteredBlocks[i].category,
                             active |-> cur = filteredBlocks[i].id]]]

\* script.js:105-133
renderBlocksList(blocks, search, categoryValue, cur) ==
    LET searchTerm == toLowerCase(search)
        category == categoryValue
        matches(block) ==
            LET matchesSearch == \/ includes(toLowerCase(block.title), searchTerm)
                                 \/ includes(toLowerCase(block.category), searchTerm)
                matchesCategory == category = <<>> \/ block.category = category
            IN  matchesSearch /\ matchesCategory
        filteredBlocks == SelectSeq(blocks, matches)   \* Array.prototype.filter
    IN  IF Len(filteredBlocks) = 0
        THEN [noBlocks |-> TRUE, items |-> <<>>]
        ELSE [noBlocks |-> FALSE,
              items |-> [i \in 1..Len(filteredBlocks) |->
                            [id |-> filteredBlocks[i].id,
                             title |-> filteredBlocks[i].title,
                             category |-> filteredBlocks[i].category,
                             active |-> cur = filteredBlocks[i].id]]]

\* script.js:136-146: the options are rebuilt, the first one ("") is selected
updateCategoryFilter(blocks) ==
    [options |-> Distinct([i \in 1..Len(blocks) |-> blocks[i].category]),
     value |-> <<>>]

\* script.js:173-220
renderReadView(block) ==
    LET codeLines == split(block.code, "\n")
    IN  [mode |-> "read", block |-> block,
         lines |-> [index \in 1..Len(codeLines) |->
                       [text |-> codeLines[index],
                        clickable |-> Truthy(block.lineExplanations, index)]],
         highlighted |-> {}, fields |-> NoFields]

\* script.js:319-349
renderEditView(block) ==
    [mode |-> "edit", block |-> block, lines |-> <<>>, highlighted |-> {},
     fields |-> [code |-> block.code, explanation |-> block.explanation,
                 lineExplanations |->
                     formatLineExplanationsForEdit(block.lineExplanations)]]

\* script.js:155-163: the active class, matched by the title text
MarkActive(list, title) ==
    [noBlocks |-> list.noBlocks,
     items |-> [i \in 1..Len(list.items) |->
                   [list.items[i] EXCEPT !.active = (list.items[i].title = title)]]]

\* script.js:149-170: the new currentBlockId, sidebar and detail pane
displayCodeBlock(id, blocks, list, viewer, editMode) ==
    IF ~HasBlock(blocks, id)
    THEN [currentBlockId |-> id, blocksList |-> list, codeViewer |-> viewer]
    ELSE LET block == FindBlock(blocks, id)
         IN  [currentBlockId |-> id,
              blocksList |-> MarkActive(list, block.title),
              codeViewer |-> IF editMode THEN renderEditView(block)
                             ELSE renderReadView(block)]

\* script.js:306-316: the popup reference, the popups in the body, the pane
RemoveFirst(seq, x) ==
    IF \E i \in 1..Len(seq) : seq[i] = x
    THEN LET i == CHOOSE k \in 1..Len(seq) :
                     seq[k] = x /\ \A j \in 1..(k - 1) : seq[j] # x
         IN  SubSeq(seq, 1, i - 1) \o SubSeq(seq, i + 1, Len(seq))
    ELSE seq

\* closeExplanationPopup dropping its reference without removing the element
closeExplanationPopup_KeepsElement(popup, body, viewer) ==
    [currentExplanationPopup |-> NoPopup,
     bodyPopups |-> body,
     codeViewer |-> [viewer EXCEPT !.highlighted = {}]]

closeExplanationPopup(popup, body, viewer) ==
    [currentExplanationPopup |-> NoPopup,
     bodyPopups |-> IF popup.open THEN RemoveFirst(body, popup) ELSE body,
     codeViewer |-> [viewer EXCEPT !.highlighted = {}]]

\* script.js:97-101: the document click listener, for a target outside
\* .code-line and outside .line-explanation-popup
documentClick(popup, body, viewer) ==
    IF listening /\ popup.open
    THEN closeExplanationPopup(popup, body, viewer)
    ELSE [currentExplanationPopup |-> popup, bodyPopups |-> body,
          codeViewer |-> viewer]

(***************************************************************************)
(* Requests in flight.  A handler suspended at an await is a record: which *)
(* handler it is, whether it awaits its mutation or its reload, the        *)
(* request it sent and, once the service has answered, the response that   *)
(* is on its way back.                                                     *)
(***************************************************************************)
NoBody ==
    [partial |-> TRUE, title |-> <<>>, category |-> <<>>, code |-> <<>>,
     explanation |-> <<>>, lineExplanations |-> EmptyObject]

NoResp == [arrived |-> FALSE, net |-> TRUE, status |-> 0, json |-> FALSE, data |-> <<>>]

Handler(kind, step, id, body, isEdit) ==
    [kind |-> kind, step |-> step, id |-> id, body |-> body, isEdit |-> isEdit,
     resp |-> NoResp]

Method(h) ==
    IF h.step = "reload" THEN "GET"
    ELSE IF h.kind = "delete" THEN "DELETE"
    ELSE IF h.kind = "saveEdit" THEN "PUT"
    ELSE IF h.isEdit # Null THEN "PUT" ELSE "POST"

RemoveAt(seq, i) == SubSeq(seq, 1, i - 1) \o SubSeq(seq, i + 1, Len(seq))

\* script.js:25-44: fetch rejects on a transport failure, !response.ok throws,
\* and response.json() throws when the body is not JSON
apiRequest(resp) ==
    [ok |-> resp.net /\ resp.status >= 200 /\ resp.status <= 299 /\ resp.json,
     value |-> resp.data]

\* responses the client will answer with an alert
Failing(resp) == resp.arrived /\ ~apiRequest(resp).ok

FailuresInFlight == Cardinality({i \in 1..Len(handlers) : Failing(handlers[i].resp)})

FailBudget == alerts + FailuresInFlight < MaxAlerts

PostsInFlight ==
    Cardinality({i \in 1..Len(handlers) :
                    Method(handlers[i]) = "POST" /\ ~handlers[i].resp.arrived})

(***************************************************************************)
(* The REST service (section 6 of the specification).                      *)
(***************************************************************************)
\* PUT /codeblocks/{id}: the fields sent replace the stored ones
Merge(block, body) ==
    [id |-> block.id,
     title |-> IF body.partial THEN block.title ELSE body.title,
     category |-> IF body.partial THEN block.category ELSE body.category,
     code |-> body.code,
     explanation |-> body.explanation,
     lineExplanations |-> body.lineExplanations]

Response(net, status, json, data) ==
    [arrived |-> TRUE, net |-> net, status |-> status, json |-> json, data |-> data]

\* the service's answer to the request of handler h, with its new collection
Serve(h, outcome) ==
    LET m == Method(h)
        same(r) == [resp |-> r, backend |-> backend, nextId |-> nextId]
    IN  IF outcome = "neterr" THEN same(Response(FALSE, 0, FALSE, <<>>))
        ELSE IF outcome = "500" THEN same(Response(TRUE, 500, TRUE, <<>>))
        ELSE IF m = "GET" THEN same(Response(TRUE, 200, TRUE, backend))
        ELSE IF m = "POST"
        THEN [resp |-> Response(TRUE, 200, TRUE, <<>>),
              backend |-> Append(backend,
                                 [Merge(Block(nextId, <<>>, <<>>, <<>>, <<>>, EmptyObject),
                                        h.body) EXCEPT !.id = nextId]),
              nextId |-> nextId + 1]
        ELSE IF ~HasBlock(backend, h.id) THEN same(Response(TRUE, 404, TRUE, <<>>))
        ELSE IF m = "PUT"
        THEN [resp |-> Response(TRUE, 200, TRUE, <<>>),
              backend |-> [i \in 1..Len(backend) |->
                              IF backend[i].id = h.id THEN Merge(backend[i], h.body)
                              ELSE backend[i]],
              nextId |-> nextId]
        ELSE [resp |-> IF outcome = "empty" THEN Response(TRUE, 204, FALSE, <<>>)
                       ELSE Response(TRUE, 200, TRUE, <<>>),
              backend |-> SelectSeq(backend, LAMBDA b : b.id # h.id),
              nextId |-> nextId]

ClientVars ==
    << codeBlocks, currentBlockId, isEditMode, currentExplanationPopup,
       bodyPopups, blocksList, rendered, codeViewer, searchInput,
       categoryFilter, modal, listening, alerts >>

\* the service answers the request of handler i
ServerRespond(i) ==
    /\ i \in 1..Len(handlers)
    /\ ~handlers[i].resp.arrived
    /\ \E outcome \in {"ok", "empty", "500", "neterr"} :
          LET r == Serve(handlers[i], outcome)
          IN  /\ outcome = "empty" =>
                    Method(handlers[i]) = "DELETE" /\ HasBlock(backend, handlers[i].id)
              /\ ~apiRequest(r.resp).ok => FailBudget
              /\ handlers' = [handlers EXCEPT ![i].resp = r.resp]
              /\ backend' = r.backend
              /\ nextId' = r.nextId
    /\ UNCHANGED ClientVars

(***************************************************************************)
(* Continuations of the async functions.                                   *)
(***************************************************************************)
RenderArgs(search, categoryValue) ==
    [done |-> TRUE, search |-> search, category |-> categoryValue]

\* loadCodeBlocks rendering without assigning the fetched list to codeBlocks
loadCodeBlocks_IgnoresPayload(resp) ==
    LET r == apiRequest(resp)
    IN  IF r.ok
        THEN [codeBlocks |-> codeBlocks,
              blocksList |-> renderBlocksList(codeBlocks, searchInput,
                                              categoryFilter.value, currentBlockId),
              rendered |-> RenderArgs(searchInput, categoryFilter.value),
              categoryFilter |-> updateCategoryFilter(codeBlocks),
              alerts |-> alerts,
              threw |-> FALSE]
        ELSE [codeBlocks |-> codeBlocks,
              blocksList |-> blocksList,
              rendered |-> rendered,
              categoryFilter |-> categoryFilter,
              alerts |-> alerts + 1,
              threw |-> FALSE]

\* loadCodeBlocks with the assignment moved out of the try block's success
\* path: the list is overwritten by whatever the failed call left
loadCodeBlocks_AssignsOnFailure(resp) ==
    LET r == apiRequest(resp)
    IN  IF r.ok
        THEN [codeBlocks |-> r.value,
              blocksList |-> renderBlocksList(r.value, searchInput,
                                              categoryFilter.value, currentBlockId),
              rendered |-> RenderArgs(searchInput, categoryFilter.value),
              categoryFilter |-> updateCategoryFilter(r.value),
              alerts |-> alerts,
              threw |-> FALSE]
        ELSE [codeBlocks |-> r.value,
              blocksList |-> blocksList,
              rendered |-> rendered,
              categoryFilter |-> categoryFilter,
              alerts |-> alerts + 1,
              threw |-> FALSE]

\* script.js:46-55, from the arrival of the GET response on: what the function
\* leaves behind, and whether it throws to its caller (the catch block
\* swallows every error, so it never does)
loadCodeBlocks(resp) ==
    LET r == apiRequest(resp)
    IN  IF r.ok
        THEN [codeBlocks |-> r.value,
              blocksList |-> renderBlocksList(r.value, searchInput,
                                              categoryFilter.value, currentBlockId),
              rendered |-> RenderArgs(searchInput, categoryFilter.value),
              categoryFilter |-> updateCategoryFilter(r.value),
              alerts |-> alerts,
              threw |-> FALSE]
        ELSE [codeBlocks |-> codeBlocks,
              blocksList |-> blocksList,
              rendered |-> rendered,
              categoryFilter |-> categoryFilter,
              alerts |-> alerts + 1,
              threw |-> FALSE]

\* the handlers without their reload: the handler ends when the answer to its
\* mutation request arrives
DeliverMutation_NoReload(i) ==
    /\ i \in 1..Len(handlers)
    /\ handlers[i].resp.arrived
    /\ handlers[i].step = "mutation"
    /\ handlers' = RemoveAt(handlers, i)
    /\ alerts' = IF apiRequest(handlers[i].resp).ok THEN alerts ELSE alerts + 1
    /\ UNCHANGED << backend, nextId, codeBlocks, currentBlockId, isEditMode,
                    currentExplanationPopup, bodyPopups, blocksList, rendered,
                    codeViewer, searchInput, categoryFilter, modal, listening >>

\* the handlers calling their mutation without await: the handler goes on to
\* loadCodeBlocks() while the mutation request is still on its way
DeliverMutation_Unawaited(i) ==
    /\ i \in 1..Len(handlers)
    /\ handlers[i].step = "mutation"
    /\ handlers' = [handlers EXCEPT ![i].step = "reload", ![i].resp = NoResp]
    /\ UNCHANGED << backend, nextId, codeBlocks, currentBlockId, isEditMode,
                    currentExplanationPopup, bodyPopups, blocksList, rendered,
                    codeViewer, searchInput, categoryFilter, modal, listening,
                    alerts >>

\* the response to the mutation request of handler i arrives:
\* script.js:227 (handleDelete), 397 (saveEdit), 486/495 (saveCodeBlock)
DeliverMutation(i) ==
    /\ i \in 1..Len(handlers)
    /\ handlers[i].resp.arrived
    /\ handlers[i].step = "mutation"
    /\ IF apiRequest(handlers[i].resp).ok
       THEN \* the handler goes on to await loadCodeBlocks()
            /\ handlers' = [handlers EXCEPT ![i].step = "reload", ![i].resp = NoResp]
            /\ alerts' = alerts
       ELSE \* the handler's catch block
            /\ handlers' = RemoveAt(handlers, i)
            /\ alerts' = alerts + 1
    /\ UNCHANGED << backend, nextId, codeBlocks, currentBlockId, isEditMode,
                    currentExplanationPopup, bodyPopups, blocksList, rendered,
                    codeViewer, searchInput, categoryFilter, modal, listening >>

\* the response to the GET of handler i arrives: the rest of loadCodeBlocks
\* and then the rest of the handler that awaited it
DeliverReload(i) ==
    /\ i \in 1..Len(handlers)
    /\ handlers[i].resp.arrived
    /\ handlers[i].step = "reload"
    /\ LET h == handlers[i]
           L == loadCodeBlocks(h.resp)
       IN  /\ handlers' = RemoveAt(handlers, i)
           /\ codeBlocks' = L.codeBlocks
           /\ rendered' = L.rendered
           /\ categoryFilter' = L.categoryFilter
           /\ IF L.threw
              THEN \* the catch block of the awaiting handler
                   /\ alerts' = L.alerts + (IF h.kind = "init" THEN 0 ELSE 1)
                   /\ blocksList' = L.blocksList
                   /\ UNCHANGED << currentBlockId, isEditMode, codeViewer, modal,
                                   listening >>
              ELSE /\ alerts' = L.alerts
                   /\ CASE h.kind = "init" ->
                             \* script.js:82
                             /\ listening' = TRUE
                             /\ blocksList' = L.blocksList
                             /\ UNCHANGED << currentBlockId, isEditMode, codeViewer,
                                             modal >>
                        [] h.kind = "delete" ->
                             \* script.js:229-234
                             /\ codeViewer' = Placeholder
                             /\ currentBlockId' = Null
                             /\ blocksList' = L.blocksList
                             /\ UNCHANGED << isEditMode, modal, listening >>
                        [] h.kind = "saveEdit" ->
                             \* script.js:405-406
                             LET D == displayCodeBlock(currentBlockId, L.codeBlocks,
                                                       L.blocksList, codeViewer, FALSE)
                             IN  /\ isEditMode' = FALSE
                                 /\ currentBlockId' = D.currentBlockId
                                 /\ blocksList' = D.blocksList
                                 /\ codeViewer' = D.codeViewer
                                 /\ UNCHANGED << modal, listening >>
                        [] h.kind = "saveCodeBlock" ->
                             \* script.js:506-512
                             /\ modal' = [modal EXCEPT !.display = "none"]
                             /\ IF h.isEdit # Null /\ modal.editingId # Null
                                   /\ currentBlockId = modal.editingId
                                THEN LET D == displayCodeBlock(modal.editingId,
                                                  L.codeBlocks, L.blocksList,
                                                  codeViewer, FALSE)
                                     IN  /\ isEditMode' = FALSE
                                         /\ currentBlockId' = D.currentBlockId
                                         /\ blocksList' = D.blocksList
                                         /\ codeViewer' = D.codeViewer
                                ELSE /\ blocksList' = L.blocksList
                                     /\ UNCHANGED << isEditMode, currentBlockId,
                                                     codeViewer >>
                             /\ UNCHANGED listening
    /\ UNCHANGED << backend, nextId, currentExplanationPopup, bodyPopups,
                    searchInput >>

(***************************************************************************)
(* User events.  A click runs the listener of the element and then, as the *)
(* event bubbles, the document listener of script.js:97-101.               *)
(***************************************************************************)
ServerVars == << backend, nextId >>

\* 'input' on #search (script.js:87)
InputSearch(s) ==
    /\ listening
    /\ s # searchInput
    /\ searchInput' = s
    /\ blocksList' = renderBlocksList(codeBlocks, s, categoryFilter.value, currentBlockId)
    /\ rendered' = RenderArgs(s, categoryFilter.value)
    /\ UNCHANGED << ServerVars, codeBlocks, currentBlockId, isEditMode,
                    currentExplanationPopup, bodyPopups, codeViewer,
                    categoryFilter, modal, listening,
                    handlers, alerts >>

\* 'change' on #category-filter (script.js:88)
ChangeCategory(c) ==
    /\ listening
    /\ c # categoryFilter.value
    /\ c = <<>> \/ \E k \in 1..Len(categoryFilter.options) : categoryFilter.options[k] = c
    /\ categoryFilter' = [categoryFilter EXCEPT !.value = c]
    /\ blocksList' = renderBlocksList(codeBlocks, searchInput, c, currentBlockId)
    /\ rendered' = RenderArgs(searchInput, c)
    /\ UNCHANGED << ServerVars, codeBlocks, currentBlockId, isEditMode,
                    currentExplanationPopup, bodyPopups, codeViewer, searchInput,
                    modal, listening, handlers, alerts >>

\* click on the k-th sidebar entry (script.js:130)
ClickBlockItem(k) ==
    /\ k \in 1..Len(blocksList.items)
    /\ LET D == displayCodeBlock(blocksList.items[k].id, codeBlocks, blocksList,
                                 codeViewer, isEditMode)
           C == documentClick(currentExplanationPopup, bodyPopups, D.codeViewer)
       IN  /\ currentBlockId' = D.currentBlockId
           /\ blocksList' = D.blocksList
           /\ codeViewer' = C.codeViewer
           /\ currentExplanationPopup' = C.currentExplanationPopup
           /\ bodyPopups' = C.bodyPopups
    /\ UNCHANGED << ServerVars, codeBlocks, isEditMode, rendered, searchInput,
                    categoryFilter, modal, listening,
                    handlers, alerts >>

\* click on a clickable code line (script.js:242-265, 268-283); the document
\* listener leaves the popup alone because the target is inside .code-line
handleLineClick(lineNumber) ==
    /\ codeViewer.mode = "read"
    /\ lineNumber \in 1..Len(codeViewer.lines)
    /\ codeViewer.lines[lineNumber].clickable
    /\ HasBlock(codeBlocks, currentBlockId)
    /\ Truthy(FindBlock(codeBlocks, currentBlockId).lineExplanations, lineNumber)
    /\ LET block == FindBlock(codeBlocks, currentBlockId)
           C == closeExplanationPopup(currentExplanationPopup, bodyPopups, codeViewer)
           popup == [open |-> TRUE, line |-> lineNumber,
                     text |-> block.lineExplanations[lineNumber]]
           \* script.js:255-261: the class leaves every line, the clicked one gets it
           cleared == C.codeViewer.highlighted \ (1..Len(codeViewer.lines))
       IN  /\ codeViewer' = [C.codeViewer EXCEPT
                                !.highlighted = cleared \cup {lineNumber}]
           /\ bodyPopups' = Append(C.bodyPopups, popup)
           /\ currentExplanationPopup' = popup
    /\ UNCHANGED << ServerVars, codeBlocks, currentBlockId, isEditMode, blocksList,
                    rendered, searchInput, categoryFilter, modal, listening, handlers, alerts >>

\* click on anything that has no listener of its own and is neither a code
\* line nor the popup (script.js:97-101)
ClickElsewhere ==
    /\ listening
    /\ currentExplanationPopup.open
    /\ LET C == documentClick(currentExplanationPopup, bodyPopups, codeViewer)
       IN  /\ codeViewer' = C.codeViewer
           /\ currentExplanationPopup' = C.currentExplanationPopup
           /\ bodyPopups' = C.bodyPopups
    /\ UNCHANGED << ServerVars, codeBlocks, currentBlockId, isEditMode, blocksList,
                    rendered, searchInput, categoryFilter, modal, listening, handlers, alerts >>

\* click on Edit (script.js:360-364)
enableEditMode ==
    /\ codeViewer.mode = "read"
    /\ LET C == closeExplanationPopup(currentExplanationPopup, bodyPopups, codeViewer)
           D == displayCodeBlock(currentBlockId, codeBlocks, blocksList,
                                 C.codeViewer, TRUE)
       IN  /\ isEditMode' = TRUE
           /\ currentExplanationPopup' = C.currentExplanationPopup
           /\ bodyPopups' = C.bodyPopups
           /\ currentBlockId' = D.currentBlockId
           /\ blocksList' = D.blocksList
           /\ codeViewer' = D.codeViewer
    /\ UNCHANGED << ServerVars, codeBlocks, rendered, searchInput, categoryFilter,
                    modal, listening, handlers, alerts >>

\* click on Cancel in the edit form (script.js:367-370)
cancelEdit ==
    /\ codeViewer.mode = "edit"
    /\ LET D == displayCodeBlock(currentBlockId, codeBlocks, blocksList,
                                 codeViewer, FALSE)
           C == documentClick(currentExplanationPopup, bodyPopups, D.codeViewer)
       IN  /\ isEditMode' = FALSE
           /\ currentBlockId' = D.currentBlockId
           /\ blocksList' = D.blocksList
           /\ codeViewer' = C.codeViewer
           /\ currentExplanationPopup' = C.currentExplanationPopup
           /\ bodyPopups' = C.bodyPopups
    /\ UNCHANGED << ServerVars, codeBlocks, rendered, searchInput, categoryFilter,
                    modal, listening, handlers, alerts >>

\* the user edits the textareas of the inline edit form
TypeEdit(fields) ==
    /\ codeViewer.mode = "edit"
    /\ fields # codeViewer.fields
    /\ codeViewer' = [codeViewer EXCEPT !.fields = fields]
    /\ UNCHANGED << ServerVars, codeBlocks, currentBlockId, isEditMode,
                    currentExplanationPopup, bodyPopups, blocksList, rendered,
                    searchInput, categoryFilter, modal,
                    listening, handlers, alerts >>

\* click on Delete (script.js:223-227), up to the first await
handleDelete(confirmed, limit) ==
    /\ codeViewer.mode = "read"
    /\ LET blockId == codeViewer.block.id
           C == documentClick(currentExplanationPopup, bodyPopups, codeViewer)
       IN  /\ IF confirmed
              THEN /\ Len(handlers) < limit
                   /\ handlers' = Append(handlers,
                          Handler("delete", "mutation", blockId, NoBody, Null))
              ELSE /\ currentExplanationPopup.open
                   /\ handlers' = handlers
           /\ codeViewer' = C.codeViewer
           /\ currentExplanationPopup' = C.currentExplanationPopup
           /\ bodyPopups' = C.bodyPopups
    /\ UNCHANGED << ServerVars, codeBlocks, currentBlockId, isEditMode, blocksList,
                    rendered, searchInput, categoryFilter, modal, listening, alerts >>

\* click on Save in the edit form (script.js:373-401), up to the first await
saveEdit(limit) ==
    /\ codeViewer.mode = "edit"
    /\ HasBlock(codeBlocks, currentBlockId)
    /\ Len(handlers) < limit
    /\ LET newCode == codeViewer.fields.code
           newExplanation == codeViewer.fields.explanation
           lineExplanationsText == codeViewer.fields.lineExplanations
           newLineExplanations == ParseLineExplanations(lineExplanationsText)
           C == documentClick(currentExplanationPopup, bodyPopups, codeViewer)
       IN  /\ handlers' = Append(handlers,
                  Handler("saveEdit", "mutation", currentBlockId,
                          [partial |-> TRUE, title |-> <<>>, category |-> <<>>,
                           code |-> newCode, explanation |-> newExplanation,
                           lineExplanations |-> newLineExplanations],
                          Null))
           /\ codeViewer' = C.codeViewer
           /\ currentExplanationPopup' = C.currentExplanationPopup
           /\ bodyPopups' = C.bodyPopups
    /\ UNCHANGED << ServerVars, codeBlocks, currentBlockId, isEditMode, blocksList,
                    rendered, searchInput, categoryFilter, modal, listening, alerts >>

\* openModal without the delete of dataset.editingId in its else branch
openModal_KeepsEditingId(block) ==
    IF block # NoBlock
    THEN [display |-> "flex",
          form |-> [title |-> block.title, category |-> block.category,
                    code |-> block.code, explanation |-> block.explanation,
                    lineExplanations |->
                        formatLineExplanationsForEdit(block.lineExplanations)],
          editingId |-> block.id]
    ELSE [display |-> "flex", form |-> EmptyForm, editingId |-> modal.editingId]

\* script.js:420-448; block = NoBlock is the call without an argument
openModal(block) ==
    IF block # NoBlock
    THEN [display |-> "flex",
          form |-> [title |-> block.title, category |-> block.category,
                    code |-> block.code, explanation |-> block.explanation,
                    lineExplanations |->
                        formatLineExplanationsForEdit(block.lineExplanations)],
          editingId |-> block.id]
    ELSE [display |-> "flex", form |-> EmptyForm, editingId |-> Null]

\* click on #add-block-btn (script.js:89)
ClickAdd ==
    /\ listening
    /\ LET C == documentClick(currentExplanationPopup, bodyPopups, codeViewer)
       IN  /\ modal' = openModal(NoBlock)
           /\ codeViewer' = C.codeViewer
           /\ currentExplanationPopup' = C.currentExplanationPopup
           /\ bodyPopups' = C.bodyPopups
    /\ UNCHANGED << ServerVars, codeBlocks, currentBlockId, isEditMode, blocksList,
                    rendered, searchInput, categoryFilter, listening, handlers, alerts >>

\* click on #close-modal or #cancel-btn (script.js:91-92, 451-453)
closeModalWindow ==
    /\ listening
    /\ modal.display = "flex"
    /\ LET C == documentClick(currentExplanationPopup, bodyPopups, codeViewer)
       IN  /\ modal' = [modal EXCEPT !.display = "none"]
           /\ codeViewer' = C.codeViewer
           /\ currentExplanationPopup' = C.currentExplanationPopup
           /\ bodyPopups' = C.bodyPopups
    /\ UNCHANGED << ServerVars, codeBlocks, currentBlockId, isEditMode, blocksList,
                    rendered, searchInput, categoryFilter, listening, handlers, alerts >>

\* the user fills in the modal form
TypeForm(form) ==
    /\ modal.display = "flex"
    /\ form # modal.form
    /\ modal' = [modal EXCEPT !.form = form]
    /\ UNCHANGED << ServerVars, codeBlocks, currentBlockId, isEditMode,
                    currentExplanationPopup, bodyPopups, blocksList, rendered,
                    codeViewer, searchInput, categoryFilter, listening, handlers, alerts >>

\* 'submit' on #code-block-form (script.js:456-502), up to the first await
saveCodeBlock(limit) ==
    /\ listening
    /\ modal.display = "flex"
    /\ Len(handlers) < limit
    /\ modal.editingId = Null => nextId + PostsInFlight <= MaxId
    /\ LET title == modal.form.title
           category == modal.form.category
           code == modal.form.code
           explanation == modal.form.explanation
           lineExplanationsText == modal.form.lineExplanations
           lineExplanations == ParseLineExplanationsModal(lineExplanationsText)
           isEdit == modal.editingId
           C == documentClick(currentExplanationPopup, bodyPopups, codeViewer)
       IN  /\ handlers' = Append(handlers,
                  Handler("saveCodeBlock", "mutation", isEdit,
                          [partial |-> FALSE, title |-> title, category |-> category,
                           code |-> code, explanation |-> explanation,
                           lineExplanations |-> lineExplanations],
                          isEdit))
           /\ codeViewer' = C.codeViewer
           /\ currentExplanationPopup' = C.currentExplanationPopup
           /\ bodyPopups' = C.bodyPopups
    /\ UNCHANGED << ServerVars, codeBlocks, currentBlockId, isEditMode, blocksList,
                    rendered, searchInput, categoryFilter, modal, listening, alerts >>

\* click on #save-json-btn (script.js:519-531): the JSON of codeBlocks goes to
\* a file of the user; the temporary link is removed again, so that the page
\* is left as it was
saveToJson ==
    /\ listening
    /\ LET dataStr == codeBlocks
           C == documentClick(currentExplanationPopup, bodyPopups, codeViewer)
       IN  /\ dataStr = codeBlocks
           /\ codeViewer' = C.codeViewer
           /\ currentExplanationPopup' = C.currentExplanationPopup
           /\ bodyPopups' = C.bodyPopups
    /\ UNCHANGED << ServerVars, codeBlocks, currentBlockId, isEditMode, blocksList,
                    rendered, searchInput, categoryFilter, modal,
                    listening, handlers, alerts >>

(***************************************************************************)
(* The page after the script has been evaluated and init() has sent its    *)
(* GET (script.js:5-8, 80-81); the service holds any initial collection.   *)
(***************************************************************************)
RECURSIVE MaxIdOf(_)
MaxIdOf(blocks) ==
    IF blocks = <<>> THEN 0
    ELSE LET m == MaxIdOf(Tail(blocks))
         IN  IF Head(blocks).id > m THEN Head(blocks).id ELSE m

ClientInit ==
    /\ codeBlocks = <<>>
    /\ currentBlockId = Null
    /\ isEditMode = FALSE
    /\ currentExplanationPopup = NoPopup
    /\ bodyPopups = <<>>
    /\ blocksList = [noBlocks |-> FALSE, items |-> <<>>]
    /\ rendered = [done |-> FALSE, search |-> <<>>, category |-> <<>>]
    /\ codeViewer = Placeholder
    /\ searchInput = <<>>
    /\ categoryFilter = [options |-> <<>>, value |-> <<>>]
    /\ modal = [display |-> "none", form |-> EmptyForm, editingId |-> Null]
    /\ listening = FALSE
    /\ handlers = << Handler("init", "reload", Null, NoBody, Null) >>
    /\ alerts = 0

Init ==
    /\ backend \in InitialCollections
    /\ nextId = MaxIdOf(backend) + 1
    /\ ClientInit

\* the service, the handlers, the detail pane, the modal and the export; one
\* user action is in flight at a time
Next ==
    \/ \E i \in 1..MaxInFlight : ServerRespond(i)
    \/ \E i \in 1..MaxInFlight : DeliverMutation(i)
    \/ \E i \in 1..MaxInFlight : DeliverReload(i)
    \/ \E k \in 1..MaxId : ClickBlockItem(k)
    \/ \E n \in 1..MaxLines : handleLineClick(n)
    \/ ClickElsewhere
    \/ enableEditMode
    \/ cancelEdit
    \/ \E f \in EditInputs : TypeEdit(f)
    \/ \E confirmed \in BOOLEAN : handleDelete(confirmed, MaxInFlight)
    \/ saveEdit(MaxInFlight)
    \/ ClickAdd
    \/ closeModalWindow
    \/ \E f \in ModalInputs : TypeForm(f)
    \/ saveCodeBlock(MaxInFlight)
    \/ saveToJson

Spec == Init /\ [][Next]_vars

(***************************************************************************)
(* Properties of the handlers.                                             *)
(***************************************************************************)
\* this step is the arrival of the response that handler i awaits
Delivered(i) ==
    /\ handlers[i].resp.arrived
    /\ \/ handlers' = RemoveAt(handlers, i)
       \/ handlers' = [handlers EXCEPT ![i].step = "reload", ![i].resp = NoResp]

\* the handler i ends in this step
Ends(i) == handlers[i].resp.arrived /\ handlers' = RemoveAt(handlers, i)

Http2xx(resp) == resp.net /\ resp.status \in 200..299

SidebarIds(list) == {list.items[k].id : k \in 1..Len(list.items)}

\* C1: the arrival of an HTTP 500 response, to whichever request of whichever
\* handler, leaves codeBlocks and currentBlockId as they are and shows
\* exactly one alert.
C1_Http500LeavesStateAndAlertsOnce ==
    [][\A i \in 1..Len(handlers) :
          (Delivered(i) /\ handlers[i].resp.net /\ handlers[i].resp.status = 500)
          => /\ codeBlocks' = codeBlocks
             /\ currentBlockId' = currentBlockId
             /\ alerts' = alerts + 1]_vars

\* C2: when the handler of a confirmed Delete whose DELETE request was answered
\* with a 2xx status ends, the deleted block is in neither the list nor the
\* sidebar, the detail pane shows the empty-selection placeholder and
\* currentBlockId is null.
C2_DeleteEndsCleared ==
    [][\A i \in 1..Len(handlers) :
          (/\ handlers[i].kind = "delete"
           /\ Ends(i)
           /\ \/ handlers[i].step = "reload"
              \/ Http2xx(handlers[i].resp))
          => /\ ~HasBlock(codeBlocks', handlers[i].id)
             /\ handlers[i].id \notin SidebarIds(blocksList')
             /\ codeViewer' = Placeholder
             /\ currentBlockId' = Null]_vars

\* C3: a call fails (its handler shows the failure alert) exactly when the
\* transport fails or the status is not 2xx, whatever the body is.
C3_OutcomeByStatusOnly ==
    [][\A i \in 1..Len(handlers) :
          Delivered(i) => ((alerts' = alerts + 1) <=> ~Http2xx(handlers[i].resp))]_vars

\* C4: when a request of a modal submission fails, one alert is shown and the
\* modal stays as it is (open, fields intact); a modal submission closes the
\* modal only when its response was a success.
C4_ModalStaysOpenOnFailure ==
    [][\A i \in 1..Len(handlers) :
          (handlers[i].kind = "saveCodeBlock" /\ Delivered(i))
          => /\ Failing(handlers[i].resp) => (alerts' = alerts + 1 /\ modal' = modal)
             /\ modal' # modal => ~Failing(handlers[i].resp)]_vars

\* C5: in the handlers of inline Save, Delete and modal submit a failed request
\* ends the handler: no further request is sent, and the detail pane, the
\* edit-mode flag, the selection and the modal stay as they are.
C5_FailureAbortsAction ==
    [][\A i \in 1..Len(handlers) :
          (/\ handlers[i].kind \in {"saveEdit", "delete", "saveCodeBlock"}
           /\ Delivered(i)
           /\ Failing(handlers[i].resp))
          => /\ Ends(i)
             /\ isEditMode' = isEditMode
             /\ codeViewer' = codeViewer
             /\ currentBlockId' = currentBlockId
             /\ modal' = modal]_vars

\* C7: in the read view, line i is clickable exactly when the displayed block
\* has an entry lineExplanations[i] (an empty text included), and the open
\* popup shows the text of the entry of its line.
C7_ClickableIffDefined ==
    codeViewer.mode = "read" =>
        /\ \A i \in 1..Len(codeViewer.lines) :
              codeViewer.lines[i].clickable
                  <=> i \in DOMAIN codeViewer.block.lineExplanations
        /\ \A n \in codeViewer.highlighted :
              currentExplanationPopup.open =>
                  /\ currentExplanationPopup.line = n
                  /\ currentExplanationPopup.text = codeViewer.block.lineExplanations[n]

\* C10: codeBlocks changes only in the step in which a successful GET response
\* arrives, and then to the whole list of that response; the arrival of a
\* failed GET response leaves it as it is.
C10_ListReplacedOnlyByFetch ==
    [][/\ codeBlocks' # codeBlocks =>
             \E i \in 1..Len(handlers) :
                 /\ handlers[i].step = "reload"
                 /\ Ends(i)
                 /\ Http2xx(handlers[i].resp) /\ handlers[i].resp.json
                 /\ codeBlocks' = handlers[i].resp.data
       /\ \A i \in 1..Len(handlers) :
             (handlers[i].step = "reload" /\ Ends(i) /\ Failing(handlers[i].resp))
             => codeBlocks' = codeBlocks]_vars

\* C10 (witness): a mutation was applied by the service, the reload failed,
\* and the list on the page is still the one fetched before.
C10_Witness ==
    /\ handlers = <<>>
    /\ alerts = 1
    /\ codeBlocks # <<>>
    /\ codeBlocks # backend

(***************************************************************************)
(* The sidebar filter, over titles, categories and search strings in both  *)
(* cases.                                                                  *)
(***************************************************************************)
FilterAlphabet == {"a", "A", "b", "B"}

FilterTexts == { <<"a">>, <<"A", "b">>, <<"B">> }

FilterBlock(id, title, category) ==
    Block(id, title, category, <<"x">>, <<"E">>, EmptyObject)

FilterCollections ==
    {<<>>}
    \cup {<<FilterBlock(1, t, c)>> : t \in FilterTexts, c \in FilterTexts}
    \cup {<<FilterBlock(1, t[1], c[1]), FilterBlock(2, t[2], c[2])>> :
             t \in FilterTexts \X FilterTexts, c \in FilterTexts \X FilterTexts}

FilterSearches == UNION {[1..n -> FilterAlphabet] : n \in 0..MaxSearchLen}

InitFilter ==
    /\ backend \in FilterCollections
    /\ nextId = MaxIdOf(backend) + 1
    /\ ClientInit

NextFilter ==
    \/ \E i \in 1..MaxInFlight : ServerRespond(i)
    \/ \E i \in 1..MaxInFlight : DeliverReload(i)
    \/ \E s \in FilterSearches : InputSearch(s)
    \/ \E c \in FilterTexts \cup {<<>>} : ChangeCategory(c)
    \/ \E k \in 1..MaxId : ClickBlockItem(k)
    \/ saveToJson

SpecFilter == InitFilter /\ [][NextFilter]_vars

\* the two letters are the same up to case
SameLetter(x, y) == x = y \/ {x, y} \in {{"a", "A"}, {"b", "B"}}

\* text contains s, compared case-insensitively
ContainsCI(text, s) ==
    \E start \in 1..(Len(text) - Len(s) + 1) :
        \A j \in 1..Len(s) : SameLetter(text[start + j - 1], s[j])

Qualifies(block, s, c) ==
    /\ ContainsCI(block.title, s) \/ ContainsCI(block.category, s)
    /\ c = <<>> \/ block.category = c

\* C6: after every rendering of the sidebar with search string s and selected
\* category c, a block of the in-memory list is in the sidebar exactly when
\* its title or category contains s up to case and c is empty or its
\* category; the sidebar shows only blocks of the list, in the order of the
\* list, and the placeholder exactly when no block qualifies.
C6_SidebarIsFilter ==
    rendered.done =>
        /\ \A k \in 1..Len(codeBlocks) :
              codeBlocks[k].id \in SidebarIds(blocksList)
                  <=> Qualifies(codeBlocks[k], rendered.search, rendered.category)
        /\ \A j \in 1..Len(blocksList.items) :
              \E k \in 1..Len(codeBlocks) :
                  /\ codeBlocks[k].id = blocksList.items[j].id
                  /\ codeBlocks[k].title = blocksList.items[j].title
                  /\ \A i \in 1..(j - 1) : \E m \in 1..(k - 1) :
                        codeBlocks[m].id = blocksList.items[i].id
        /\ blocksList.noBlocks <=>
              ~\E k \in 1..Len(codeBlocks) :
                  Qualifies(codeBlocks[k], rendered.search, rendered.category)
        /\ blocksList.noBlocks => blocksList.items = <<>>

\* C6 (witness): a search in mixed case and a selected category show one of
\* two blocks, whose title matches the search only up to case.
C6_Witness ==
    /\ rendered.done
    /\ rendered.search = <<"a", "B">>
    /\ rendered.category # <<>>
    /\ Len(codeBlocks) = 2
    /\ Len(blocksList.items) = 1
    /\ blocksList.items[1].title = <<"A", "b">>

(***************************************************************************)
(* The round trip of a stored lineExplanations object through the edit     *)
(* form: the service holds one block with any object over two keys; the    *)
(* user selects it, presses Edit and presses Save without typing.          *)
(***************************************************************************)
RoundTripAlphabet == {" ", ":", "\n"}

RoundTripTexts == UNION {[1..n -> RoundTripAlphabet] : n \in 0..MaxExplLen}

RoundTripObjects ==
    UNION {[keys -> RoundTripTexts] : keys \in SUBSET {1, 3}}

InitRoundTrip ==
    /\ backend \in {<<Block(1, <<"T">>, <<"c">>, <<"x">>, <<"E">>, m)>> :
                       m \in RoundTripObjects}
    /\ nextId = 2
    /\ ClientInit

NextRoundTrip ==
    \/ \E i \in 1..MaxInFlight : ServerRespond(i)
    \/ \E i \in 1..MaxInFlight : DeliverMutation(i)
    \/ \E i \in 1..MaxInFlight : DeliverReload(i)
    \/ \E k \in 1..MaxId : ClickBlockItem(k)
    \/ enableEditMode
    \/ saveEdit(MaxInFlight)

SpecRoundTrip == InitRoundTrip /\ [][NextRoundTrip]_vars

NoNewline(obj) ==
    \A k \in DOMAIN obj : \A i \in 1..Len(obj[k]) : obj[k][i] # "\n"

\* no text begins or ends with white space
NoOuterSpace(obj) ==
    \A k \in DOMAIN obj :
        obj[k] # <<>> => (obj[k][1] \notin WhiteSpace /\ obj[k][Len(obj[k])] \notin WhiteSpace)

\* the inline Save of handler i sends the object the edit form was seeded from
SendsSeed(i) == handlers[i].body.lineExplanations = codeViewer.block.lineExplanations

SavingSeed(i) ==
    /\ handlers[i].kind = "saveEdit"
    /\ handlers[i].step = "mutation"
    /\ codeViewer.mode = "edit"

\* C8 (as claimed): formatting an object whose texts contain no line break and
\* parsing the text again yields the object.
C8_RoundTrip ==
    \A i \in 1..Len(handlers) :
        (SavingSeed(i) /\ NoNewline(codeViewer.block.lineExplanations))
        => SendsSeed(i)

\* C8 (amended): formatting an object whose texts contain no line break and
\* neither begin nor end with white space, and parsing the text again, yields
\* the object.
C8_RoundTripTrimmed ==
    \A i \in 1..Len(handlers) :
        (/\ SavingSeed(i)
         /\ NoNewline(codeViewer.block.lineExplanations)
         /\ NoOuterSpace(codeViewer.block.lineExplanations))
        => SendsSeed(i)

\* C8 (witness): an object with two entries, one with colons for its text and
\* one empty, has gone through the edit form and is sent unchanged.
C8_Witness ==
    \E i \in 1..Len(handlers) :
        /\ SavingSeed(i)
        /\ codeViewer.block.lineExplanations = (1 :> <<":", ":">>) @@ (3 :> <<>>)
        /\ codeViewer.fields.lineExplanations = <<"1", ":", ":", ":", "\n", "3", ":">>
        /\ SendsSeed(i)

(***************************************************************************)
(* The line-explanation parser of inline Save and of modal submit, on      *)
(* every text up to MaxTextLen characters: the page has loaded block B1,   *)
(* the block is open in the edit form, the modal is open, and the text is  *)
(* typed into the line-explanations field of both.                         *)
(***************************************************************************)
ParserAlphabet == {"0", "3", "-", "a", ":", " ", "\n"}

ParserTexts == UNION {[1..n -> ParserAlphabet] : n \in 0..MaxTextLen}

InitParse ==
    \E text \in ParserTexts :
        /\ backend = <<B1>>
        /\ nextId = 2
        /\ codeBlocks = <<B1>>
        /\ currentBlockId = 1
        /\ isEditMode = TRUE
        /\ currentExplanationPopup = NoPopup
        /\ bodyPopups = <<>>
        /\ blocksList = MarkActive(renderBlocksList(<<B1>>, <<>>, <<>>, Null), B1.title)
        /\ rendered = RenderArgs(<<>>, <<>>)
        /\ codeViewer = [renderEditView(B1) EXCEPT !.fields.lineExplanations = text]
        /\ searchInput = <<>>
        /\ categoryFilter = updateCategoryFilter(<<B1>>)
        /\ \E form \in ModalInputs :
              modal = [openModal(NoBlock) EXCEPT
                          !.form = [form EXCEPT !.lineExplanations = text]]
        /\ listening = TRUE
        /\ handlers = <<>>
        /\ alerts = 0

NextParse ==
    \/ saveEdit(MaxInFlight)
    \/ saveCodeBlock(MaxInFlight)

SpecParse == InitParse /\ [][NextParse]_vars

\* position of the first c in s, 0 when there is none
FirstIndexOf(s, c) ==
    IF \E i \in 1..Len(s) : s[i] = c
    THEN CHOOSE i \in 1..Len(s) : s[i] = c /\ \A j \in 1..(i - 1) : s[j] # c
    ELSE 0

RECURSIVE TextLines(_)
TextLines(s) ==
    LET i == FirstIndexOf(s, "\n")
    IN  IF i = 0 THEN <<s>>
        ELSE <<SubSeq(s, 1, i - 1)>> \o TextLines(SubSeq(s, i + 1, Len(s)))

\* s without the white space around it
Strip(s) ==
    LET inked == {i \in 1..Len(s) : s[i] \notin WhiteSpace}
    IN  IF inked = {} THEN <<>>
        ELSE SubSeq(s, CHOOSE i \in inked : \A j \in inked : i <= j,
                       CHOOSE i \in inked : \A j \in inked : i >= j)

Unsigned(h) == IF h # <<>> /\ h[1] \in {"-", "+"} THEN Tail(h) ELSE h

\* h is an integer: an optional sign and then digits only
IsInteger(h) ==
    /\ Unsigned(h) # <<>>
    /\ \A i \in 1..Len(Unsigned(h)) : Unsigned(h)[i] \in Digits

RECURSIVE Pow10(_)
Pow10(n) == IF n = 0 THEN 1 ELSE 10 * Pow10(n - 1)

RECURSIVE DigitSum(_, _)
DigitSum(d, i) ==
    IF i > Len(d) THEN 0
    ELSE DigitVal(d[i]) * Pow10(Len(d) - i) + DigitSum(d, i + 1)

IntegerValue(h) ==
    IF h[1] = "-" THEN 0 - DigitSum(Unsigned(h), 1) ELSE DigitSum(Unsigned(h), 1)

\* h begins with an integer
HasLeadingInteger(h) == \E k \in 1..Len(h) : IsInteger(SubSeq(h, 1, k))

LeadingInteger(h) ==
    LET k == CHOOSE n \in 1..Len(h) :
                 /\ IsInteger(SubSeq(h, 1, n))
                 /\ \A m \in (n + 1)..Len(h) : ~IsInteger(SubSeq(h, 1, m))
    IN  IntegerValue(SubSeq(h, 1, k))

LineHead(line) == Strip(SubSeq(line, 1, FirstIndexOf(line, ":") - 1))

LineRest(line) == Strip(SubSeq(line, FirstIndexOf(line, ":") + 1, Len(line)))

\* the object in which every line that has a colon and whose head Accepts
\* maps the number KeyOf its head to its rest, a later line winning
EntriesOf(text, Accepts(_), KeyOf(_)) ==
    LET lines == TextLines(text)
        good == {n \in 1..Len(lines) :
                    FirstIndexOf(lines[n], ":") # 0 /\ Accepts(LineHead(lines[n]))}
        keys == {KeyOf(LineHead(lines[n])) : n \in good}
    IN  [k \in keys |->
            LineRest(lines[CHOOSE n \in good :
                               /\ KeyOf(LineHead(lines[n])) = k
                               /\ \A m \in good :
                                     KeyOf(LineHead(lines[m])) = k => m <= n])]

\* the object each parser in flight has produced is Expected of its text
ParsersYield(Expected(_)) ==
    \A i \in 1..Len(handlers) :
        /\ (handlers[i].kind = "saveEdit" /\ handlers[i].step = "mutation") =>
              handlers[i].body.lineExplanations
                  = Expected(codeViewer.fields.lineExplanations)
        /\ (handlers[i].kind = "saveCodeBlock" /\ handlers[i].step = "mutation") =>
              handlers[i].body.lineExplanations
                  = Expected(modal.form.lineExplanations)

ClaimedObject(text) == EntriesOf(text, IsInteger, IntegerValue)

AmendedObject(text) == EntriesOf(text, HasLeadingInteger, LeadingInteger)

InitRace ==
    /\ backend = <<B1>>
    /\ nextId = 2
    /\ ClientInit

NextRace ==
    \/ \E i \in 1..MaxOverlap : ServerRespond(i)
    \/ \E i \in 1..MaxOverlap : DeliverMutation(i)
    \/ \E i \in 1..MaxOverlap : DeliverReload(i)
    \/ \E k \in 1..MaxId : ClickBlockItem(k)
    \/ enableEditMode
    \/ handleDelete(TRUE, MaxOverlap)
    \/ saveEdit(MaxOverlap)
    \/ ClickAdd
    \/ saveCodeBlock(MaxOverlap)

SpecRace == InitRace /\ [][NextRace]_vars

\* the number of reload GETs of user actions that are under way
ReloadsUnderWay(hs) ==
    Cardinality({i \in 1..Len(hs) : hs[i].step = "reload" /\ hs[i].kind # "init"})

\* what a handler's view transition touches
View == << codeViewer, isEditMode, currentBlockId, modal.display >>

\* a handler moves on in this step (a user action leaves the handlers alone or
\* starts one more)
HandlerStep == handlers' # handlers /\ Len(handlers') <= Len(handlers)

\* C11: a reload GET is issued only in the step in which the response to the
\* mutation request of the same handler arrives, and a handler changes the
\* detail pane, the edit-mode flag, the selection or the modal only in the
\* step in which the response to its reload GET arrives, whatever the other
\* handlers in flight do.
C11_StepsInOrder ==
    [][/\ ReloadsUnderWay(handlers') > ReloadsUnderWay(handlers) =>
             \E i \in 1..Len(handlers) :
                 /\ handlers[i].step = "mutation"
                 /\ handlers[i].resp.arrived
                 /\ handlers' = [handlers EXCEPT ![i].step = "reload",
                                                 ![i].resp = NoResp]
       /\ (HandlerStep /\ View' # View) =>
             \E i \in 1..Len(handlers) :
                 /\ handlers[i].step = "reload"
                 /\ handlers[i].resp.arrived
                 /\ handlers' = RemoveAt(handlers, i)]_vars

\* C11 (witness): two handlers are in flight, the first-started still awaits
\* its mutation while the second-started already awaits its reload.
C11_Witness ==
    /\ Len(handlers) = 2
    /\ handlers[1].step = "mutation"
    /\ handlers[2].step = "reload"
    /\ handlers[2].resp.arrived

\* the answer to the reload GET of handler i arrives in this step and is a
\* success
ReloadSucceeds(i) ==
    /\ handlers[i].step = "reload"
    /\ Ends(i)
    /\ apiRequest(handlers[i].resp).ok

\* every request has completed, each of them successfully
Settled == handlers = <<>> /\ alerts = 0

\* C12: with overlapping handlers, whenever a handler finishes the list is the
\* payload of the reload GET whose answer arrived last: a successful reload
\* answer replaces the list by its payload, whether its handler was started
\* first or second, and a handler that finishes otherwise leaves the list as
\* that answer left it.
C12_LastReloadWins ==
    [][\A i \in 1..Len(handlers) :
          /\ ReloadSucceeds(i) => codeBlocks' = handlers[i].resp.data
          /\ (Ends(i) /\ ~ReloadSucceeds(i)) => codeBlocks' = codeBlocks]_vars

\* C12 (witness): two handlers overlapped, every request succeeded, and the
\* reload answer that arrived last carried the older collection, which is now
\* the list.
C12_Witness ==
    /\ Settled
    /\ codeBlocks # backend
    /\ nextId = 3

PopupBlock ==
    Block(1, <<"T">>, <<"c">>, <<"x", "\n", "y">>, <<"E">>,
          (1 :> <<"p">>) @@ (2 :> <<"q">>))

InitPopup ==
    /\ backend = <<PopupBlock>>
    /\ nextId = 2
    /\ ClientInit

NextPopup ==
    \/ \E i \in 1..MaxInFlight : ServerRespond(i)
    \/ \E i \in 1..MaxInFlight : DeliverMutation(i)
    \/ \E i \in 1..MaxInFlight : DeliverReload(i)
    \/ \E k \in 1..MaxId : ClickBlockItem(k)
    \/ \E n \in 1..MaxLines : handleLineClick(n)
    \/ ClickElsewhere
    \/ enableEditMode
    \/ cancelEdit
    \/ \E confirmed \in BOOLEAN : handleDelete(confirmed, MaxInFlight)
    \/ ClickAdd
    \/ closeModalWindow
    \/ saveToJson

SpecPopup == InitPopup /\ [][NextPopup]_vars

\* a user event in this step: the handlers stay as they are or one is started
UserStep == handlers' = handlers \/ Len(handlers') > Len(handlers)

\* the user is typing into a form in this step
Typing == codeViewer'.fields # codeViewer.fields \/ modal'.form # modal.form

\* C14: at most one popup element exists, and currentExplanationPopup is that
\* element exactly when one exists; a click on a clickable line leaves the
\* popup of that line as the only one and that line as the only highlighted
\* one; a click anywhere else than on a code line or the popup closes the
\* popup.
C14_SinglePopup ==
    /\ [](/\ Len(bodyPopups) <= 1
          /\ currentExplanationPopup.open <=> bodyPopups # <<>>
          /\ currentExplanationPopup.open => bodyPopups = <<currentExplanationPopup>>)
    /\ [][/\ (currentExplanationPopup'.open
              /\ currentExplanationPopup' # currentExplanationPopup)
             => /\ bodyPopups' = <<currentExplanationPopup'>>
                /\ codeViewer'.highlighted = {currentExplanationPopup'.line}
          /\ (UserStep /\ ~Typing /\ currentExplanationPopup.open
              /\ ~currentExplanationPopup'.open)
             => /\ bodyPopups' = <<>>
                /\ codeViewer'.highlighted = {}
          /\ (UserStep /\ ~Typing /\ currentExplanationPopup.open)
             => \/ ~currentExplanationPopup'.open
                \/ currentExplanationPopup'.line # currentExplanationPopup.line]_vars

\* C14 (witness): the popup of line 2 is open, it is the one popup element
\* and line 2 is the one highlighted line, while a Delete is under way.
C14_Witness ==
    /\ currentExplanationPopup.open
    /\ currentExplanationPopup.line = 2
    /\ bodyPopups = <<currentExplanationPopup>>
    /\ codeViewer.highlighted = {2}
    /\ Len(handlers) = 1
    /\ handlers[1].kind = "delete"

\* C15: from the step in which the edit form is shown to the step in which it
\* is left, the selected id stays the one edit mode was entered with, so that
\* the PUT of Save and the redisplay after Save or Cancel are for that id,
\* whatever is clicked and whichever handler completes in between.
C15_EditTargetFixed ==
    [][(codeViewer.mode = "edit" /\ codeViewer'.mode = "edit")
       => currentBlockId' = currentBlockId]_vars

\* C16: a click on a sidebar entry of another block makes that block's id the
\* selected one, and afterwards exactly the entry of that id is marked active
\* (the entry selected before is not), titles shared by two blocks included.
C16_OnlySelectedEntryActive ==
    [][\A k \in 1..Len(blocksList.items) :
          (/\ handlers' = handlers
           /\ currentBlockId # blocksList.items[k].id
           /\ currentBlockId' = blocksList.items[k].id)
          => \A j \in 1..Len(blocksList'.items) :
                 blocksList'.items[j].active
                     <=> blocksList'.items[j].id = blocksList.items[k].id]_vars

\* C17: every lineExplanations object in a request of inline Save or of modal
\* submit has positive integers only as its keys, whatever text was in the
\* line-explanations field.
C17_KeysPositive ==
    \A i \in 1..Len(handlers) :
        handlers[i].kind \in {"saveEdit", "saveCodeBlock"} =>
            \A n \in DOMAIN handlers[i].body.lineExplanations : n >= 1

(***************************************************************************)
(* The modal, with both branches of openModal: openModal() as the Add      *)
(* control calls it (script.js:89) and openModal(block) for a block of the *)
(* list, the call its isEdit branch (script.js:424-441) is written for.    *)
(***************************************************************************)
\* openModal(block) with the k-th block of the list
OpenModalForEdit(k) ==
    /\ listening
    /\ k \in 1..Len(codeBlocks)
    /\ LET C == documentClick(currentExplanationPopup, bodyPopups, codeViewer)
       IN  /\ modal' = openModal(codeBlocks[k])
           /\ codeViewer' = C.codeViewer
           /\ currentExplanationPopup' = C.currentExplanationPopup
           /\ bodyPopups' = C.bodyPopups
    /\ UNCHANGED << ServerVars, codeBlocks, currentBlockId, isEditMode, blocksList,
                    rendered, searchInput, categoryFilter, listening, handlers, alerts >>

InitModal ==
    /\ backend = <<B1>>
    /\ nextId = 2
    /\ ClientInit

NextModal ==
    \/ \E i \in 1..MaxInFlight : ServerRespond(i)
    \/ \E i \in 1..MaxInFlight : DeliverMutation(i)
    \/ \E i \in 1..MaxInFlight : DeliverReload(i)
    \/ \E k \in 1..MaxId : ClickBlockItem(k)
    \/ enableEditMode
    \/ ClickAdd
    \/ \E k \in 1..MaxId : OpenModalForEdit(k)
    \/ closeModalWindow
    \/ \E f \in ModalInputs : TypeForm(f)
    \/ saveCodeBlock(MaxInFlight)

SpecModal == InitModal /\ [][NextModal]_vars

\* the modal submission started in this step
Submitted == handlers'[Len(handlers')]

Submits ==
    /\ Len(handlers') = Len(handlers) + 1
    /\ Submitted.kind = "saveCodeBlock"

\* C18: a modal submission sends a PUT to the retained id when the form
\* retains one and a POST otherwise; the modal opened by the Add control
\* retains no id, whatever an earlier modal session retained, and the modal
\* opened for a block retains the id of that block.
C18_UpdateIffIdRetained ==
    [][/\ Submits =>
             IF modal.editingId # Null
             THEN Method(Submitted) = "PUT" /\ Submitted.id = modal.editingId
             ELSE Method(Submitted) = "POST"
       \* the modal shown with its form reset is the one of the Add control and
       \* retains no id, unless it was opened for a block whose fields are empty
       /\ (modal' # modal /\ modal'.display = "flex" /\ modal'.form = EmptyForm)
          => \/ modal'.editingId = Null
             \/ /\ HasBlock(codeBlocks, modal'.editingId)
                /\ modal' = openModal(FindBlock(codeBlocks, modal'.editingId))
       \* an id is retained only by opening the modal for the block of that id
       /\ (modal'.editingId # Null /\ modal'.editingId # modal.editingId)
          => /\ HasBlock(codeBlocks, modal'.editingId)
             /\ modal' = openModal(FindBlock(codeBlocks, modal'.editingId))]_vars

\* C18 (witness): a modal session that retained id 1 has updated block 1, and
\* the submission of the modal opened afterwards with Add is a POST.
C18_Witness ==
    /\ Len(backend) = 1
    /\ backend[1].category = <<"d">>
    /\ Len(handlers) = 1
    /\ handlers[1].kind = "saveCodeBlock"
    /\ Method(handlers[1]) = "POST"
    /\ modal.editingId = Null

(***************************************************************************)
(* Reloads under a search text and a selected category: two blocks of      *)
(* different categories, the search box, the category dropdown and Delete. *)
(***************************************************************************)
CategorySearches == { <<>>, <<"b">> }

InitCategory ==
    /\ backend = << FilterBlock(1, <<"a">>, <<"a">>), FilterBlock(2, <<"B">>, <<"B">>) >>
    /\ nextId = 3
    /\ ClientInit

NextCategory ==
    \/ \E i \in 1..MaxInFlight : ServerRespond(i)
    \/ \E i \in 1..MaxInFlight : DeliverMutation(i)
    \/ \E i \in 1..MaxInFlight : DeliverReload(i)
    \/ \E s \in CategorySearches : InputSearch(s)
    \/ \E c \in FilterTexts \cup {<<>>} : ChangeCategory(c)
    \/ \E k \in 1..MaxId : ClickBlockItem(k)
    \/ handleDelete(TRUE, MaxInFlight)

SpecCategory == InitCategory /\ [][NextCategory]_vars

\* C19: when a reload has completed, the sidebar holds exactly the blocks of
\* the new list that qualify under the text in the search box and the
\* category the dropdown shows as selected.
C19_SidebarMatchesDropdown ==
    [][\A i \in 1..Len(handlers) :
          ReloadSucceeds(i) =>
              \A k \in 1..Len(codeBlocks') :
                  codeBlocks'[k].id \in SidebarIds(blocksList')
                      <=> Qualifies(codeBlocks'[k], searchInput', categoryFilter'.value)]_vars

\* C20: isEditMode is true only while a block is selected and the detail
\* pane shows the edit form of that block.
C20_EditModeShowsEditForm ==
    isEditMode =>
        /\ currentBlockId # Null
        /\ codeViewer.mode = "edit"
        /\ codeViewer.block.id = currentBlockId

\* C21: whenever the popup is open, the detail pane shows in read mode the
\* block the popup was opened on, the line of the popup is the highlighted
\* one and the popup shows that line's explanation; so no handler that
\* completes replaces the detail pane and leaves the popup open.
C21_PopupAnnotatesShownLine ==
    currentExplanationPopup.open =>
        /\ codeViewer.mode = "read"
        /\ codeViewer.block.id = currentBlockId
        /\ codeViewer.highlighted = {currentExplanationPopup.line}
        /\ Truthy(codeViewer.block.lineExplanations, currentExplanationPopup.line)
        /\ currentExplanationPopup.text
               = codeViewer.block.lineExplanations[currentExplanationPopup.line]

====
